---- MODULE Spec2Model ----
(***************************************************************************)
(* docker-deploy: hash-derived environment synthesis and the main pipeline *)
(* (src/unnamed/part_001, the current main.go).                            *)
(*                                                                         *)
(* Strings that the program inspects character by character (file paths,   *)
(* variable names, assignments) are sequences of one-character strings.    *)
(* Byte buffers (documents, standard input) are sequences of lines, one    *)
(* line per parsed entry.  Pointers and optional values are sequences of   *)
(* length 0 (nil) or 1.                                                    *)
(***************************************************************************)
EXTENDS Integers, Sequences, FiniteSets, Bags, TLC

\* ------------------------------------------------------------------ bounds
MaxPathLen == 3      \* longest file path given to the Variable Namer
MaxSources == 2      \* longest --compose-file list
MaxDepth   == 2      \* deepest current directory (segments below the root)
MaxDocLen  == 3      \* longest document on standard input, in lines

Nil == "nil"

\* ------------------------------------------------------------ characters
LowerLetters == <<"a","b","c","d","e","f","g","h","i","j","k","l","m",
                  "n","o","p","q","r","s","t","u","v","w","x","y","z">>
UpperLetters == <<"A","B","C","D","E","F","G","H","I","J","K","L","M",
                  "N","O","P","Q","R","S","T","U","V","W","X","Y","Z">>
Digits == {"0","1","2","3","4","5","6","7","8","9"}

Range(s) == {s[i] : i \in DOMAIN s}

\* the characters the regular expression [^A-Z0-9_] does NOT match
AllowedChars == Range(UpperLetters) \cup Digits \cup {"_"}

\* strings.ToUpper, one character
ToUpperChar(c) ==
    IF \E i \in DOMAIN LowerLetters : LowerLetters[i] = c
    THEN UpperLetters[CHOOSE i \in DOMAIN LowerLetters : LowerLetters[i] = c]
    ELSE c

ToUpper(s) == [i \in DOMAIN s |-> ToUpperChar(s[i])]

\* the same replacement with a character class that also lets "." through
ReplaceAllStringKeepDot(s) ==
    [i \in DOMAIN s |-> IF s[i] \in AllowedChars \cup {"."} THEN s[i] ELSE "_"]

\* regexp.MustCompile(`[^A-Z0-9_]`).ReplaceAllString(s, "_")
ReplaceAllString(s) == [i \in DOMAIN s |-> IF s[i] \in AllowedChars THEN s[i] ELSE "_"]

\* path.Base: strip trailing slashes
RECURSIVE StripTrailingSlashes(_)
StripTrailingSlashes(p) ==
    IF Len(p) > 0 /\ p[Len(p)] = "/"
    THEN StripTrailingSlashes(SubSeq(p, 1, Len(p) - 1))
    ELSE p

\* path.Base: index of the last "/" (0 when there is none)
LastSlash(p) ==
    IF \E i \in DOMAIN p : p[i] = "/"
    THEN CHOOSE i \in DOMAIN p : p[i] = "/" /\ \A j \in DOMAIN p : p[j] = "/" => j <= i
    ELSE 0

\* path.Base without its two special cases ("" -> ".", only slashes -> "/")
PathBaseNoSpecialCase(p) ==
    LET q == StripTrailingSlashes(p)
    IN  SubSeq(q, LastSlash(q) + 1, Len(q))

\* path.Base
PathBase(p) ==
    IF p = <<>> THEN <<".">>
    ELSE LET q == StripTrailingSlashes(p)
             r == SubSeq(q, LastSlash(q) + 1, Len(q))
         IN  IF r = <<>> THEN <<"/">> ELSE r

\* newFileEnvironment, lines 71-74: the variable name
VariableName(filePath) == ReplaceAllString(ToUpper(PathBase(filePath)))

\* ---------------------------------------------------------- file contents
\* What os.Open / io.Copy find at a path: an errno, or the file's bytes.
ENOENT == "ENOENT"
EISDIR == "EISDIR"
FileErrors == {ENOENT, EISDIR}
Contents == {"B0", "B1"}

\* sha256 of the content, first 8 bytes, hex (one digest per content)
HexDigest(content) == IF content = "B0" THEN <<"0","a">> ELSE <<"f","1">>

\* fileHash
FileHash(file) ==
    IF file \in FileErrors
    THEN [val |-> <<>>, err |-> file]
    ELSE [val |-> HexDigest(file), err |-> Nil]

\* newFileEnvironment; file is what the filesystem holds at filePath
NewFileEnvironment(filePath, file) ==
    LET variable == VariableName(filePath)
        version  == FileHash(file)
    IN  IF version.err # Nil
        THEN [variable |-> variable, env |-> <<>>, err |-> version.err]
        ELSE [variable |-> variable,
              env |-> variable \o <<"=">> \o version.val, err |-> Nil]

\* --------------------------------------------------------------- documents
\* One line of a compose document: a section, a key and a configSettings
\* record, or "!" for a line that is not well-formed YAML.
CfgLines == {"c1", "c2", "c3", "c4"}
SecLines == {"s1", "s2", "s3"}
BadLine  == "!"
Lines    == CfgLines \cup SecLines \cup {BadLine}

PathAppC  == <<"c","/","a",".","x">>      \* c/a.x
PathAppO  == <<"o","/","a",".","x">>      \* o/a.x
PathData  == <<"d",".","j">>              \* d.j
PathGone  == <<"g","o","n","e">>          \* gone (does not exist)

\* configSettings of a line (yaml: name, file)
Settings(line) ==
    CASE line = "c1" -> [Name |-> "x", File |-> PathAppC]
      [] line = "c2" -> [Name |-> "y", File |-> PathGone]
      [] line = "c3" -> [Name |-> "",  File |-> PathData]
      [] line = "c4" -> [Name |-> "z", File |-> PathAppC]
      [] line = "s1" -> [Name |-> "s", File |-> PathData]
      [] line = "s2" -> [Name |-> "t", File |-> PathGone]
      [] line = "s3" -> [Name |-> "u", File |-> PathAppO]
      [] OTHER       -> [Name |-> "",  File |-> <<>>]

\* the filesystem under the referenced paths
OsOpen(filePath) ==
    CASE filePath = PathAppC -> "B0"
      [] filePath = PathAppO -> "B1"
      [] filePath = PathData -> "B1"
      [] OTHER               -> ENOENT

\* yaml.Unmarshal(yamlFile, &cfg) for composeInfo: a malformed line or a
\* mapping key defined twice is an error; each section becomes a map from
\* the line (its key) to its configSettings.
Unmarshal(yamlFile) ==
    IF \/ \E i \in DOMAIN yamlFile : yamlFile[i] = BadLine
       \/ \E i, j \in DOMAIN yamlFile : i # j /\ yamlFile[i] = yamlFile[j]
    THEN [err |-> "yaml", Configs |-> <<>>, Secrets |-> <<>>]
    ELSE [err |-> Nil,
          Configs |-> [k \in Range(yamlFile) \cap CfgLines |-> Settings(k)],
          Secrets |-> [k \in Range(yamlFile) \cap SecLines |-> Settings(k)]]

\* the orders in which `range` may visit the keys of a map
Orders(m) ==
    {o \in [1..Cardinality(DOMAIN m) -> DOMAIN m] :
        \A i, j \in DOMAIN o : i # j => o[i] # o[j]}

\* one `for _, v := range m` loop of environmentFromYaml that appends without
\* looking at v.Name
RECURSIVE RangeAppendAnyName(_, _, _, _)
RangeAppendAnyName(environment, m, order, i) ==
    IF i > Len(order) THEN environment
    ELSE LET v == m[order[i]]
             r == NewFileEnvironment(v.File, OsOpen(v.File))
         IN  RangeAppendAnyName(IF r.err = Nil THEN Append(environment, r.env)
                                ELSE environment, m, order, i + 1)

\* one `for _, v := range m` loop of environmentFromYaml (lines 93-103 and
\* 105-115), visiting the keys in the given order from position i
RECURSIVE RangeAppend(_, _, _, _)
RangeAppend(environment, m, order, i) ==
    IF i > Len(order) THEN environment
    ELSE LET v == m[order[i]]
         IN  IF v.Name # ""
             THEN LET r == NewFileEnvironment(v.File, OsOpen(v.File))
                  IN  IF r.err # Nil
                      THEN RangeAppend(environment, m, order, i + 1)
                      ELSE RangeAppend(Append(environment, r.env), m, order, i + 1)
             ELSE RangeAppend(environment, m, order, i + 1)

\* environmentFromYaml where the first unreadable file aborts the document
EnvironmentFromYamlAbort(yamlFile, cfgOrder, secOrder) ==
    LET cfg == Unmarshal(yamlFile)
        bad == \E k \in (DOMAIN cfg.Configs) \cup (DOMAIN cfg.Secrets) :
                  Settings(k).Name # "" /\ OsOpen(Settings(k).File) \in FileErrors
    IN  IF cfg.err # Nil THEN [env |-> <<>>, err |-> cfg.err]
        ELSE IF bad THEN [env |-> <<>>, err |-> ENOENT]
        ELSE [env |-> RangeAppend(RangeAppend(<<>>, cfg.Configs, cfgOrder, 1),
                                  cfg.Secrets, secOrder, 1),
              err |-> Nil]

\* environmentFromYaml; cfgOrder and secOrder are the orders in which the two
\* range loops visit the maps
EnvironmentFromYaml(yamlFile, cfgOrder, secOrder) ==
    LET cfg == Unmarshal(yamlFile)
    IN  IF cfg.err # Nil THEN [env |-> <<>>, err |-> cfg.err]
        ELSE [env |-> RangeAppend(RangeAppend(<<>>, cfg.Configs, cfgOrder, 1),
                                  cfg.Secrets, secOrder, 1),
              err |-> Nil]

\* ---------------------------------------------------------- document sources
StdinMarker == "-"
Sources == {StdinMarker, "a.yml", "b.yml", "bad.yml", "missing.yml"}

\* os.ReadFile(filename) for the compose files on disk
ReadFile(filename) ==
    CASE filename = "a.yml"   -> [data |-> <<"c1", "c2", "s1">>, err |-> Nil]
      [] filename = "b.yml"   -> [data |-> <<"s3", "c3", "s2">>, err |-> Nil]
      [] filename = "bad.yml" -> [data |-> <<"c1", "!">>, err |-> Nil]
      [] OTHER                -> [data |-> <<>>, err |-> ENOENT]

NoFail == -1

\* io.ReadAll(io.TeeReader(os.Stdin, &buf)) when every read starts again at
\* the first byte of the stream
ReadAllTeeRewind(data, pos, failAt, buffer) ==
    [data |-> data, err |-> Nil, pos |-> Len(data), buf |-> buffer \o data]

\* io.ReadAll(io.TeeReader(os.Stdin, &buf)): everything from the read offset
\* to end of input, or to the byte at which the read fails; what was read is
\* also written to the buffer.
ReadAllTee(data, pos, failAt, buffer) ==
    LET last == IF failAt = NoFail THEN Len(data) ELSE failAt
        read == SubSeq(data, pos + 1, last)
    IN  [data |-> read,
         err  |-> IF failAt = NoFail THEN Nil ELSE "EIO",
         pos  |-> last,
         buf  |-> buffer \o read]

\* ------------------------------------------------------------- app config
EACCES == "EACCES"

\* what os.ReadFile finds for .docker-deploy.yml in one directory
MarkerStates ==
    { [err |-> ENOENT, data |-> <<>>],
      [err |-> EACCES, data |-> <<>>],
      [err |-> Nil, data |-> <<>>],             \* empty file
      [err |-> Nil, data |-> <<"host: A">>],
      [err |-> Nil, data |-> <<"host: B">>],
      [err |-> Nil, data |-> <<"!">>] }         \* not well-formed YAML

Absent == [err |-> ENOENT, data |-> <<>>]

\* yaml.Unmarshal(data, cfg) for appConfig, cfg holding the zero value
UnmarshalAppConfig(data) ==
    IF \E i \in DOMAIN data : data[i] = "!" THEN [err |-> "yaml", Host |-> ""]
    ELSE IF \E i \in DOMAIN data : data[i] = "host: A" THEN [err |-> Nil, Host |-> "tcp://A"]
    ELSE IF \E i \in DOMAIN data : data[i] = "host: B" THEN [err |-> Nil, Host |-> "tcp://B"]
    ELSE [err |-> Nil, Host |-> ""]

\* filepath.Dir: a directory is the sequence of its segments, the root <<>>
FilepathDir(path) == IF path = <<>> THEN <<>> ELSE SubSeq(path, 1, Len(path) - 1)

\* filepath.Join(filepath.VolumeName(targetPath), "/")
rootDir == <<>>

\* ------------------------------------------------------------------- state
VARIABLES
    pc,           \* position of main
    getwdFails,   \* os.Getwd returns an error
    cwd,          \* the current directory
    markers,      \* markers[d]: the marker file in the ancestor of depth d
    hostFlag,     \* *host
    composeFiles, \* *composeFiles
    stdinData,    \* os.Stdin: all bytes of the stream
    stdinFailAt,  \* os.Stdin: number of bytes delivered before a read error
    stdinPos,     \* os.Stdin: read offset
    targetPath,   \* loadAppConfig: targetPath
    getwdErr,     \* loadAppConfig: err declared at line 153
    cfg,          \* main: cfg (<<>> is the nil pointer)
    err,          \* main: err
    idx,          \* loadEnvFromConfigFiles: sources entered so far
    envs,         \* loadEnvFromConfigFiles: envs
    yamlFile,     \* loadEnvFromConfigFile: yamlFile of the last source
    env,          \* loadEnvFromConfigFiles: env of the last source
    buf,          \* main: buf
    args,         \* main: args
    cmd,          \* main: cmd once cmd.Run is called (<<>> before)
    filePath,     \* newFileEnvironment called on its own: argument
    file,         \*   what the filesystem holds there
    result        \*   its return values (<<>> before the call)

vars == <<pc, getwdFails, cwd, markers, hostFlag, composeFiles, stdinData,
          stdinFailAt, stdinPos, targetPath, getwdErr, cfg, err, idx, envs,
          yamlFile, env, buf, args, cmd, filePath, file, result>>

inputVars == <<getwdFails, cwd, markers, hostFlag, composeFiles, stdinData,
               stdinFailAt>>
namerVars == <<filePath, file, result>>
walkVars  == <<targetPath, getwdErr, cfg>>
envVars   == <<stdinPos, idx, envs, yamlFile, env, buf>>

\* sequences over S of length lo..hi
SeqsOf(S, lo, hi) == UNION {[1..n -> S] : n \in lo..hi}

\* ----------------------------------------------------------------- actions
\* main line 225 with loadAppConfig lines 152-158
LoadAppConfig ==
    /\ pc = "main"
    /\ IF getwdFails
       THEN /\ getwdErr' = "getwd"
            /\ cfg' = <<>>
            /\ err' = "getwd"
            /\ pc' = "fatal"
            /\ UNCHANGED targetPath
       ELSE /\ getwdErr' = Nil
            /\ targetPath' = cwd
            /\ pc' = "walk"
            /\ UNCHANGED <<cfg, err>>
    /\ UNCHANGED <<inputVars, envVars, args, cmd, namerVars>>

\* what loadAppConfig hands back at line 183 if the loop's own err were the
\* one returned
BreakReturnInner(outerErr, innerErr) == [cfg |-> <<>>, err |-> innerErr]

\* what loadAppConfig hands back at line 183 after a `break`: the err of
\* line 153; the loop's err (declared by := at line 162, assigned at line
\* 175) is a different variable
BreakReturn(outerErr, innerErr) == [cfg |-> <<>>, err |-> outerErr]

\* the root test of line 165 that never succeeds
AtRootNever(path) == FALSE

\* line 165: targetPath == rootDir
AtRoot(path) == path = rootDir

\* one iteration of the loop of loadAppConfig (lines 160-181), and main's
\* check of the result (lines 226-228) when the loop ends
WalkStep ==
    /\ pc = "walk"
    /\ LET data == markers[Len(targetPath)]
           parsed == UnmarshalAppConfig(data.data)
           ret == IF data.err # Nil
                  THEN IF data.err = ENOENT
                       THEN [cfg |-> <<[Host |-> ""]>>, err |-> Nil]
                       ELSE BreakReturn(getwdErr, data.err)
                  ELSE IF parsed.err # Nil
                       THEN BreakReturn(getwdErr, parsed.err)
                       ELSE [cfg |-> <<[Host |-> parsed.Host]>>, err |-> Nil]
       IN  IF data.err = ENOENT /\ ~AtRoot(targetPath)
           THEN /\ targetPath' = FilepathDir(targetPath)
                /\ UNCHANGED <<pc, cfg, err>>
           ELSE /\ cfg' = ret.cfg
                /\ err' = ret.err
                /\ pc' = IF ret.err # Nil THEN "fatal" ELSE "loadEnv"
                /\ UNCHANGED targetPath
    /\ UNCHANGED <<inputVars, getwdErr, envVars, args, cmd, namerVars>>

\* loadEnvFromConfigFile (lines 134-149); o is the outcome of the read
LoadEnvFromConfigFile(o, cfgOrder, secOrder) ==
    IF o.err # Nil THEN [env |-> <<>>, err |-> o.err]
    ELSE EnvironmentFromYaml(o.data, cfgOrder, secOrder)

\* envs = append(env, envs...)
AppendEnvsFront(e, new) == new \o e

\* line 128: envs = append(envs, env...)
AppendEnvs(e, new) == e \o new

\* main going on to build the command whatever loadEnvFromConfigFiles returned
AfterLoadEnvIgnoreErr(e) == "args"

\* main lines 232-235: log.Fatal when loadEnvFromConfigFiles returned an error
AfterLoadEnv(e) == IF e # Nil THEN "fatal" ELSE "args"

\* one iteration of the loop of loadEnvFromConfigFiles (lines 123-129)
LoadEnvStep ==
    /\ pc = "loadEnv"
    /\ idx < Len(composeFiles)
    /\ LET filename == composeFiles[idx + 1]
           rd == ReadAllTee(stdinData, stdinPos, stdinFailAt, buf)
           o  == IF filename = StdinMarker
                 THEN [data |-> rd.data, err |-> rd.err]
                 ELSE ReadFile(filename)
           m  == Unmarshal(o.data)
       IN  \E cfgOrder \in Orders(m.Configs), secOrder \in Orders(m.Secrets) :
             LET r == LoadEnvFromConfigFile(o, cfgOrder, secOrder)
             IN  /\ idx' = idx + 1
                 /\ yamlFile' = o.data
                 /\ env' = r.env
                 /\ IF filename = StdinMarker
                    THEN stdinPos' = rd.pos /\ buf' = rd.buf
                    ELSE UNCHANGED <<stdinPos, buf>>
                 /\ IF r.err # Nil
                    THEN /\ err' = r.err
                         /\ pc' = AfterLoadEnv(r.err)
                         /\ UNCHANGED envs
                    ELSE /\ envs' = AppendEnvs(envs, r.env)
                         /\ UNCHANGED <<err, pc>>
    /\ UNCHANGED <<inputVars, walkVars, args, cmd, namerVars>>

\* main lines 238-240
RECURSIVE ComposeArgs(_)
ComposeArgs(files) ==
    IF files = <<>> THEN <<>>
    ELSE <<"--compose-file", Head(files)>> \o ComposeArgs(Tail(files))

\* loadEnvFromConfigFiles line 131 and main lines 232-240
LoadEnvReturn ==
    /\ pc = "loadEnv"
    /\ idx = Len(composeFiles)
    /\ args' = <<"stack", "deploy">> \o ComposeArgs(composeFiles)
    /\ pc' = AfterLoadEnv(Nil)
    /\ UNCHANGED <<inputVars, walkVars, err, envVars, cmd, namerVars>>

\* main lines 242-246; cfg.Host on a nil cfg is a nil-pointer panic
SelectHost ==
    /\ pc = "args"
    /\ IF hostFlag # ""
       THEN args' = <<"--host", hostFlag>> \o args /\ pc' = "exec"
       ELSE IF cfg = <<>>
            THEN pc' = "panic" /\ UNCHANGED args
            ELSE /\ args' = IF cfg[1].Host # ""
                            THEN <<"--host", cfg[1].Host>> \o args ELSE args
                 /\ pc' = "exec"
    /\ UNCHANGED <<inputVars, walkVars, err, envVars, cmd, namerVars>>

\* the reader handed to the subprocess when the buffer is always used
CmdStdinAlwaysBuf(buffer, data, pos) == [handle |-> "buf", bytes |-> buffer]

\* main lines 278-282: the reader handed to the subprocess, and the bytes it
\* will deliver
CmdStdin(buffer, data, pos) ==
    IF Len(buffer) > 0
    THEN [handle |-> "buf", bytes |-> buffer]
    ELSE [handle |-> "os.Stdin", bytes |-> SubSeq(data, pos + 1, Len(data))]

\* main lines 269-284: cmd.Run
RunDocker ==
    /\ pc = "exec"
    /\ cmd' = <<[Args  |-> args,
                 Env   |-> envs,
                 Stdin |-> CmdStdin(buf, stdinData, stdinPos)]>>
    /\ pc' = "done"
    /\ UNCHANGED <<inputVars, walkVars, err, envVars, args, namerVars>>

Next == \/ LoadAppConfig
        \/ WalkStep
        \/ LoadEnvStep
        \/ LoadEnvReturn
        \/ SelectHost
        \/ RunDocker

\* ------------------------------------------------------------------- inits
Idle == /\ pc = "main"
        /\ stdinPos = 0
        /\ targetPath = <<>>
        /\ getwdErr = Nil
        /\ cfg = <<>>
        /\ err = Nil
        /\ idx = 0
        /\ envs = <<>>
        /\ yamlFile = <<>>
        /\ env = <<>>
        /\ buf = <<>>
        /\ args = <<>>
        /\ cmd = <<>>

NamerIdle == filePath = <<>> /\ file = ENOENT /\ result = <<>>

DirOfDepth(d) == [i \in 1..d |-> i]

\* standard input contents for the pipeline runs
StdinDocs == { <<>>, <<"c1", "s1">>, <<"c2", "s3", "c1">>, <<"s1", "!">> }

\* the pipeline: any list of sources, any of the stdin contents, a read of
\* stdin that may fail, a marker file in the current directory or above
Init ==
    /\ Idle /\ NamerIdle
    /\ getwdFails = FALSE
    /\ cwd = DirOfDepth(1)
    /\ markers \in [0..1 -> {Absent, [err |-> EACCES, data |-> <<>>],
                             [err |-> Nil, data |-> <<"host: A">>]}]
    /\ hostFlag \in {"", "tcp://F"}
    /\ composeFiles \in SeqsOf(Sources, 1, MaxSources)
    /\ stdinData \in StdinDocs
    /\ stdinFailAt \in {NoFail} \cup 0..Len(stdinData)

Spec == Init /\ [][Next]_vars

\* config discovery: any current directory, any marker files above it
InitConfig ==
    /\ Idle /\ NamerIdle
    /\ getwdFails \in BOOLEAN
    /\ cwd \in {DirOfDepth(d) : d \in 0..MaxDepth}
    /\ markers \in [0..Len(cwd) -> MarkerStates]
    /\ getwdFails => \A d \in DOMAIN markers : markers[d] = Absent
    /\ hostFlag \in {"", "tcp://F"}
    /\ composeFiles \in {<<"a.yml">>, <<"missing.yml">>}
    /\ stdinData = <<>>
    /\ stdinFailAt = NoFail

SpecConfig == InitConfig /\ [][Next]_vars

\* the program is sequential: once main has called loadAppConfig, each
\* statement of it is executed as soon as it is reached
FairSpecConfig ==
    InitConfig /\ [][Next]_vars /\ WF_vars(LoadAppConfig) /\ WF_vars(WalkStep)

\* one document on standard input: any lines in any order
InitYaml ==
    /\ Idle /\ NamerIdle
    /\ getwdFails = FALSE
    /\ cwd = DirOfDepth(1)
    /\ markers = [d \in 0..1 |-> Absent]
    /\ hostFlag = ""
    /\ composeFiles \in {<<StdinMarker>>, <<StdinMarker, "b.yml">>}
    /\ stdinData \in SeqsOf(Lines, 0, MaxDocLen)
    /\ stdinFailAt = NoFail

SpecYaml == InitYaml /\ [][Next]_vars

\* newFileEnvironment on its own
NamerChars == {"a", "Z", "7", "_", ".", "/", "-"}

\* what the filesystem can hold at a path: nothing opens at the empty path,
\* and a path with a trailing slash never reads as a regular file
FileStates(p) ==
    IF p = <<>> \/ p[Len(p)] = "/" THEN FileErrors ELSE FileErrors \cup Contents

InitNamer ==
    /\ Idle
    /\ getwdFails = FALSE
    /\ cwd = <<>>
    /\ markers = [d \in 0..0 |-> Absent]
    /\ hostFlag = ""
    /\ composeFiles = <<"a.yml">>
    /\ stdinData = <<>>
    /\ stdinFailAt = NoFail
    /\ filePath \in SeqsOf(NamerChars, 0, MaxPathLen)
    /\ file \in FileStates(filePath)
    /\ result = <<>>

\* a call newFileEnvironment(filePath)
NewFileEnvironmentCall ==
    /\ result = <<>>
    /\ result' = <<NewFileEnvironment(filePath, file)>>
    /\ UNCHANGED <<inputVars, walkVars, envVars, pc, err, args, cmd, filePath, file>>

NextNamer == NewFileEnvironmentCall

SpecNamer == InitNamer /\ [][NextNamer]_vars

\* ================================================================ properties
Terminal == {"fatal", "panic", "done"}

\* loadAppConfig has returned to main
ConfigReturned == pc \notin {"main", "walk"}

\* loadEnvFromConfigFiles has returned without error
EnvLoaded == pc \in {"args", "exec", "panic", "done"}

\* the source reads without error when the batch gets to it
ReadsOk(filename) ==
    IF filename = StdinMarker THEN stdinFailAt = NoFail
    ELSE ReadFile(filename).err = Nil

\* the bytes of a source taken alone
AloneBytes(filename) ==
    IF filename = StdinMarker THEN stdinData ELSE ReadFile(filename).data

\* the source cannot be read or its bytes do not parse
SourceFails(filename) ==
    ~ReadsOk(filename) \/ Unmarshal(AloneBytes(filename)).err # Nil

BadSources == {i \in DOMAIN composeFiles : SourceFails(composeFiles[i])}

FirstBad == CHOOSE i \in BadSources : \A j \in BadSources : i <= j

\* the assignment each line is to give: NAME=fingerprint
Expected(line) ==
    CASE line \in {"c1", "c4"} -> <<"A","_","X","=","0","a">>
      [] line = "s1"           -> <<"D","_","J","=","f","1">>
      [] line = "s3"           -> <<"A","_","X","=","f","1">>
      [] OTHER                 -> <<>>

HasName(line)  == line \in {"c1", "c2", "c4", "s1", "s2", "s3"}
FileReads(line) == line \in {"c1", "c3", "c4", "s1", "s3"}

\* the lines of a document that are to contribute an assignment
Contributing(doc, section) == {l \in Range(doc) \cap section : HasName(l) /\ FileReads(l)}

\* the assignments of a set of lines, with multiplicity
ExpectedBag(ls) ==
    [a \in {Expected(l) : l \in ls} |-> Cardinality({l \in ls : Expected(l) = a})]

BagOfSeq(s) == [a \in Range(s) |-> Cardinality({i \in DOMAIN s : s[i] = a})]

\* the last source entered by the loop was read and parsed
LastSourceParsed ==
    /\ idx >= 1
    /\ ReadsOk(composeFiles[idx])
    /\ Unmarshal(yamlFile).err = Nil

\* ----------------------------------------------------------------------- C1
\* C1: when any source of the list cannot be read or does not parse,
\* loadEnvFromConfigFiles never returns successfully: the loop stops no later
\* than the first such source, main ends in log.Fatal with a non-nil error,
\* and cmd.Run is never reached, however many earlier sources succeeded.
C1_FatalSourcePreventsDocker ==
    BadSources # {} =>
        /\ cmd = <<>>
        /\ ~EnvLoaded
        /\ idx <= FirstBad
        /\ (pc = "loadEnv" => idx < FirstBad)
        /\ (pc \in Terminal => pc = "fatal" /\ err # Nil)

\* a later source failed after an earlier one had contributed assignments
C1_Witness ==
    /\ BadSources # {}
    /\ pc = "fatal"
    /\ idx = 2
    /\ envs # <<>>
    /\ cmd = <<>>

\* ----------------------------------------------------------------------- C2
\* C2: when a document parses and the file of one of its named entries cannot
\* be fingerprinted, environmentFromYaml returns no error, the batch goes on,
\* and every other named entry with a readable file (config or secret) still
\* has its assignment in the result, which is appended to the batch.
C2_UnreadableFileSkipsOnlyThatEntry ==
    (/\ LastSourceParsed
     /\ \E l \in Range(yamlFile) : HasName(l) /\ ~FileReads(l)) =>
        /\ err = Nil
        /\ pc # "fatal"
        /\ \A l \in Range(yamlFile) :
              HasName(l) /\ FileReads(l) => \E i \in DOMAIN env : env[i] = Expected(l)
        /\ Len(envs) >= Len(env)
        /\ SubSeq(envs, Len(envs) - Len(env) + 1, Len(envs)) = env

\* a missing config file listed first, a readable config and a readable
\* secret in the same document
C2_Witness ==
    /\ LastSourceParsed
    /\ yamlFile = <<"c2", "s3", "c1">>
    /\ env = <<Expected("c1"), Expected("s3")>>
    /\ pc = "done"

\* ----------------------------------------------------------------------- C3
RECURSIVE ConcatOutcomes(_)
\* all concatenations, in order, of one possible environmentFromYaml result
\* per document
ConcatOutcomes(docs) ==
    IF docs = <<>> THEN {<<>>}
    ELSE LET m == Unmarshal(Head(docs))
             first == {EnvironmentFromYaml(Head(docs), co, so).env :
                          co \in Orders(m.Configs), so \in Orders(m.Secrets)}
         IN  {a \o b : a \in first, b \in ConcatOutcomes(Tail(docs))}

\* C3 as stated: for sources that all read and parse, the returned set is the
\* concatenation in list order of what environmentFromYaml gives for each
\* source taken alone.
C3_ConcatOfSourcesTakenAlone ==
    (EnvLoaded /\ BadSources = {}) =>
        envs \in ConcatOutcomes([i \in DOMAIN composeFiles |-> AloneBytes(composeFiles[i])])

\* the bytes source i supplies within the batch: standard input is delivered
\* to the first "-" source only
BatchBytes(i) ==
    IF composeFiles[i] = StdinMarker /\ \E j \in 1..(i - 1) : composeFiles[j] = StdinMarker
    THEN <<>>
    ELSE AloneBytes(composeFiles[i])

\* C3 (amended): after each source that succeeded, and for the returned set,
\* envs is the concatenation in list order of what environmentFromYaml gives
\* for each source's bytes, where a "-" source after the first one supplies
\* the empty document; nothing is dropped, deduplicated or reordered.
C3_ConcatInSourceOrder ==
    (pc \in {"loadEnv"} \cup {"args", "exec", "panic", "done"} /\ err = Nil) =>
        envs \in ConcatOutcomes([i \in 1..idx |-> BatchBytes(i)])

\* a file source then standard input, both contributing
C3_Witness ==
    /\ pc = "done"
    /\ composeFiles = <<"b.yml", StdinMarker>>
    /\ stdinData = <<"c1", "s1">>
    /\ envs = <<Expected("s3"), Expected("c1"), Expected("s1")>>

\* ----------------------------------------------------------------------- C4
\* C4: for a document that parses, the result holds exactly one assignment
\* per entry with a non-empty name and a readable file, none for any other
\* entry, and the config-derived assignments come before the secret-derived.
C4_OneAssignmentPerEligibleEntry ==
    LastSourceParsed =>
        LET ce == Contributing(yamlFile, CfgLines)
            se == Contributing(yamlFile, SecLines)
            nc == Cardinality(ce)
        IN  /\ Len(env) = nc + Cardinality(se)
            /\ BagOfSeq(SubSeq(env, 1, nc)) = ExpectedBag(ce)
            /\ BagOfSeq(SubSeq(env, nc + 1, Len(env))) = ExpectedBag(se)

\* a secret listed before two configs, one of them without a name
C4_Witness ==
    /\ LastSourceParsed
    /\ yamlFile = <<"s1", "c3", "c1">>
    /\ env = <<Expected("c1"), Expected("s1")>>

\* ----------------------------------------------------------------------- C5
\* C5: once cmd.Run is called, if some source was "-" the subprocess reads
\* from the replay buffer, which holds exactly the bytes read from standard
\* input; otherwise it is given os.Stdin with nothing read from it.
C5_StdinReplayedIffConsumed ==
    cmd # <<>> =>
        IF \E i \in DOMAIN composeFiles : composeFiles[i] = StdinMarker
        THEN /\ cmd[1].Stdin.handle = "buf"
             /\ cmd[1].Stdin.bytes = SubSeq(stdinData, 1, stdinPos)
        ELSE /\ cmd[1].Stdin.handle = "os.Stdin"
             /\ stdinPos = 0
             /\ cmd[1].Stdin.bytes = stdinData

\* ----------------------------------------------------------------------- C6
\* C6: the buffer always holds exactly the bytes read so far, once each; a
\* "-" source that comes after another "-" source reads nothing, parses as
\* the empty document and contributes nothing, without error; and from the
\* first "-" source on, all of standard input is in the buffer.
C6_StdinDrainedOnce ==
    /\ buf = SubSeq(stdinData, 1, stdinPos)
    /\ (/\ idx >= 1
        /\ composeFiles[idx] = StdinMarker
        /\ \E j \in 1..(idx - 1) : composeFiles[j] = StdinMarker) =>
            /\ yamlFile = <<>>
            /\ env = <<>>
            /\ err = Nil
            /\ pc # "fatal"
            /\ buf = stdinData
    /\ (/\ EnvLoaded
        /\ \E i \in DOMAIN composeFiles : composeFiles[i] = StdinMarker) =>
            buf = stdinData /\ stdinPos = Len(stdinData)

\* two "-" sources on a non-empty standard input
C6_Witness ==
    /\ composeFiles = <<StdinMarker, StdinMarker>>
    /\ stdinData = <<"c1", "s1">>
    /\ idx = 2
    /\ buf = <<"c1", "s1">>
    /\ envs = <<Expected("c1"), Expected("s1")>>
    /\ pc = "done"

\* ----------------------------------------------------------------------- C7
\* the part of an assignment before its first "="
NamePart(a) ==
    LET eq == CHOOSE i \in DOMAIN a : a[i] = "=" /\ \A j \in 1..(i - 1) : a[j] # "="
    IN  SubSeq(a, 1, eq - 1)

\* the text after the last "/" of a path
FinalSegment(p) == SubSeq(p, LastSlash(p) + 1, Len(p))

OtherDirs == { <<>>, <<"/">>, <<"a", "/">>, <<".", ".", "/">>, <<"Z", "/", "7", "/">> }

\* C7: whenever newFileEnvironment returns an assignment, its NAME has only
\* characters of [A-Z0-9_], and the same final segment placed in any other
\* directory gets the same NAME.
C7_NameCharsAndBasenameOnly ==
    (result # <<>> /\ result[1].err = Nil) =>
        LET name == NamePart(result[1].env)
        IN  /\ Range(name) \subseteq AllowedChars
            /\ \A d \in OtherDirs :
                  NamePart(NewFileEnvironment(d \o FinalSegment(filePath), "B0").env) = name

\* a lower-case file name with a dot, in a directory
C7_Witness ==
    /\ result # <<>>
    /\ filePath = <<"/", "a", ".">>
    /\ result[1].env = <<"A", "_", "=", "0", "a">>

\* ----------------------------------------------------------------------- C8
EndsInSeparator(p) == p # <<>> /\ p[Len(p)] = "/"

\* C8 as stated: for the empty path or a path ending in a separator the
\* variable name is the empty string.
C8_EmptyBasenameGivesEmptyName ==
    (result # <<>> /\ (filePath = <<>> \/ EndsInSeparator(filePath))) =>
        result[1].variable = <<>>

\* the path without its trailing separators
Trimmed(p) ==
    LET keep == {n \in 0..Len(p) : (n = 0 \/ p[n] # "/") /\ \A i \in (n + 1)..Len(p) : p[i] = "/"}
    IN  SubSeq(p, 1, CHOOSE n \in keep : TRUE)

\* C8 (amended): for the empty path and for a path made only of separators
\* the variable name is "_"; for any other path ending in a separator it is
\* the name of the path without its trailing separators; it is never empty.
C8_EmptyBasenameGivesUnderscore ==
    (result # <<>> /\ (filePath = <<>> \/ EndsInSeparator(filePath))) =>
        /\ result[1].variable # <<>>
        /\ IF Trimmed(filePath) = <<>>
           THEN result[1].variable = <<"_">>
           ELSE /\ result[1].variable = VariableName(Trimmed(filePath))
                /\ Len(result[1].variable) = Len(FinalSegment(Trimmed(filePath)))

\* the empty path
C8_Witness ==
    /\ result # <<>>
    /\ filePath = <<>>
    /\ result[1].variable = <<"_">>

\* ----------------------------------------------------------------------- C9
\* the depth of the nearest ancestor (the current directory included) that
\* holds a marker file, -1 when there is none
Nearest ==
    LET with == {d \in DOMAIN markers : markers[d] # Absent}
    IN  IF with = {} THEN -1 ELSE CHOOSE d \in with : \A e \in with : e <= d

\* the walk never goes above the nearest marker, and when it has returned:
\* with no marker anywhere the result is a config with an empty host and a
\* nil error; with markers, targetPath is the directory of the nearest one
\* and a marker that parses gives its own host.
WalkResult ==
    getwdFails \/
        /\ (pc = "walk" => Len(targetPath) >= Nearest /\ Len(targetPath) <= Len(cwd))
        /\ (ConfigReturned /\ idx = 0 /\ Nearest = -1) =>
              cfg = <<[Host |-> ""]>> /\ err = Nil /\ pc = "loadEnv" /\ targetPath = rootDir
        /\ (ConfigReturned /\ Nearest >= 0) =>
              /\ targetPath = DirOfDepth(Nearest)
              /\ LET mk == markers[Nearest]
                 IN  (mk.err = Nil /\ UnmarshalAppConfig(mk.data).err = Nil) =>
                        cfg = <<[Host |-> UnmarshalAppConfig(mk.data).Host]>>

\* C9: loadAppConfig always returns, whatever the depth of the current
\* directory; with no marker up to the root it returns a non-nil config with
\* an empty host and no error; with several markers the nearest is the one
\* used and the walk stops there.
C9_WalkTerminatesAtNearestOrRoot == <>ConfigReturned /\ []WalkResult

\* markers in the root and in the parent: the parent's is used
C9_Witness ==
    /\ ConfigReturned
    /\ Len(cwd) = 2
    /\ markers[0] = [err |-> Nil, data |-> <<"host: A">>]
    /\ markers[1] = [err |-> Nil, data |-> <<"host: B">>]
    /\ markers[2] = Absent
    /\ cfg = <<[Host |-> "tcp://B"]>>
    /\ targetPath = <<1>>

\* ---------------------------------------------------------------------- C10
\* C10: loadAppConfig never returns a nil config with a nil error; when the
\* nearest marker cannot be read or does not parse, main ends in log.Fatal
\* with that error and never reaches the host selection.
C10_NoNilConfigWithNilError ==
    /\ (ConfigReturned /\ idx = 0) => ~(cfg = <<>> /\ err = Nil)
    /\ (/\ ConfigReturned
        /\ ~getwdFails
        /\ Nearest >= 0
        /\ \/ markers[Nearest].err # Nil
           \/ UnmarshalAppConfig(markers[Nearest].data).err # Nil) =>
            pc = "fatal" /\ err # Nil

====
